---------------------------- MODULE Spec2Model ----------------------------
(* Vehicle registration dashboard (src/app.py): load_data() with its      *)
(* st.cache_data wrapper and the CSV file it reads and writes, and the    *)
(* steps of main(): widgets, filter, metrics, aggregation tables.         *)
(*                                                                        *)
(* Python strings are sequences of one-character strings, so that the     *)
(* text written to the CSV file and the text parsed back are computed.    *)
(* A float is a record [k, n, d]: k = "fin" is the rational n/d (d > 0),  *)
(* k = "inf" and k = "nan" are the IEEE values numpy and pandas produce   *)
(* on a division by zero.                                                 *)
EXTENDS Integers, Sequences, FiniteSets, TLC

VARIABLES
    file,          \* vehicle_registrations.csv: [exists, rows]
    cache,         \* st.cache_data entry of load_data: [set, val]
    attempts,      \* executions of load_data's body in this process
    writes,        \* completed df.to_csv calls in this process
    genCalls,      \* executions of the mock data generation in this process
    generated,     \* the dataset the last generating load returned: [set, val]
    src,           \* how the last load_data() call got its result
    pc,            \* position of the script run
    errAt,         \* the step whose exception ended the script run
    df,            \* main: df
    date_range,    \* main: date_range, a tuple of one or two dates
    categories,    \* main: categories (selected)
    manufacturers, \* main: manufacturers (selected)
    filtered_df,   \* main: filtered_df
    total_reg,     \* main: total_reg
    total_text,    \* text of the "Total Registrations" metric
    yoy_growth,    \* main: yoy_growth, a float
    yoy_text,      \* text of the "YoY Growth (2023)" metric
    latest_month,  \* main: latest_month, the text of the "Latest Data" metric
    yoy_df,        \* main: yoy_df
    manu_share,    \* main: manu_share
    monthly,       \* main: monthly
    show_raw       \* whether st.dataframe(filtered_df) was rendered

vars == <<file, cache, attempts, writes, genCalls, generated, src, pc, errAt,
          df, date_range, categories, manufacturers, filtered_df,
          total_reg, total_text, yoy_growth, yoy_text, latest_month,
          yoy_df, manu_share, monthly, show_raw>>

-----------------------------------------------------------------------------
(* Bounds of the model *)

\* months of the generator's date window that are modelled
GenMonths == 2
\* manufacturers of each category that are modelled (the first ones)
MaxManu == 1
\* longest stream of random draws, used cyclically by the generator
MaxStream == 2
\* executions of load_data's body per process
MaxAttempts == 2
\* rows of a dataset handed to the filter
MaxFilterRows == 2
\* rows of a dataset handed to the aggregations
MaxAggRows == 3

-----------------------------------------------------------------------------
(* Text *)

Digits == <<"0", "1", "2", "3", "4", "5", "6", "7", "8", "9">>

\* the characters of the model's strings in code point order
Alphabet == <<" ", "%", ",", "-", ".">> \o Digits \o
            <<"A", "B", "D", "E", "F", "H", "J", "K", "M", "N", "O", "P",
              "Q", "R", "S", "T", "V", "W", "Y">> \o
            <<"a", "b", "c", "d", "e", "f", "g", "h", "i", "j", "k", "l", "m",
              "n", "o", "p", "r", "s", "t", "u", "v", "x", "y", "z">>

Ord(c) == CHOOSE i \in 1..Len(Alphabet) : Alphabet[i] = c

IsDigit(c) == \E i \in 1..10 : Digits[i] = c

DigitVal(c) == (CHOOSE i \in 1..10 : Digits[i] = c) - 1

\* str(n) for n >= 0
RECURSIVE IntToStr(_)
IntToStr(n) ==
    IF n < 10 THEN <<Digits[n + 1]>>
    ELSE IntToStr(n \div 10) \o <<Digits[(n % 10) + 1]>>

\* a cell that is a decimal integer
IsIntStr(s) == Len(s) > 0 /\ \A i \in 1..Len(s) : IsDigit(s[i])

RECURSIVE StrToInt(_)
StrToInt(s) ==
    IF Len(s) = 0 THEN 0
    ELSE 10 * StrToInt(SubSeq(s, 1, Len(s) - 1)) + DigitVal(s[Len(s)])

\* s < t for Python strings
RECURSIVE StrLess(_, _)
StrLess(s, t) ==
    IF Len(t) = 0 THEN FALSE
    ELSE IF Len(s) = 0 THEN TRUE
    ELSE IF s[1] = t[1] THEN StrLess(Tail(s), Tail(t))
    ELSE Ord(s[1]) < Ord(t[1])

\* zero-padded decimal of width w
RECURSIVE Pad(_, _)
Pad(n, w) == IF w = 0 THEN <<>> ELSE Pad(n \div 10, w - 1) \o <<Digits[(n % 10) + 1]>>


-----------------------------------------------------------------------------
(* Dates: a pandas Timestamp at midnight, [y, m, d] *)

IsLeap(y) == (y % 4 = 0 /\ y % 100 # 0) \/ y % 400 = 0

DaysIn(y, m) ==
    IF m = 2 THEN (IF IsLeap(y) THEN 29 ELSE 28)
    ELSE IF m \in {4, 6, 9, 11} THEN 30 ELSE 31

MonthEnd(y, m) == [y |-> y, m |-> m, d |-> DaysIn(y, m)]

DateLE(a, b) ==
    \/ a.y < b.y
    \/ a.y = b.y /\ a.m < b.m
    \/ a.y = b.y /\ a.m = b.m /\ a.d <= b.d

DateLess(a, b) == DateLE(a, b) /\ a # b

\* pd.date_range(start, end, freq='M'): the month ends in [start, end]
RECURSIVE MonthEndsFrom(_, _, _)
MonthEndsFrom(y, m, end) ==
    IF ~DateLE([y |-> y, m |-> m, d |-> 1], end) THEN <<>>
    ELSE (IF DateLE(MonthEnd(y, m), end) THEN <<MonthEnd(y, m)>> ELSE <<>>)
         \o (IF m = 12 THEN MonthEndsFrom(y + 1, 1, end)
                       ELSE MonthEndsFrom(y, m + 1, end))

pd_date_range(start, end) ==
    SelectSeq(MonthEndsFrom(start.y, start.m, end), LAMBDA e : DateLE(start, e))

MonthNames == << <<"J","a","n","u","a","r","y">>, <<"F","e","b","r","u","a","r","y">>,
                 <<"M","a","r","c","h">>, <<"A","p","r","i","l">>, <<"M","a","y">>,
                 <<"J","u","n","e">>, <<"J","u","l","y">>, <<"A","u","g","u","s","t">>,
                 <<"S","e","p","t","e","m","b","e","r">>, <<"O","c","t","o","b","e","r">>,
                 <<"N","o","v","e","m","b","e","r">>, <<"D","e","c","e","m","b","e","r">> >>

\* Timestamp.strftime('%B %Y')
strftime_B_Y(t) == MonthNames[t.m] \o <<" ">> \o Pad(t.y, 4)

-----------------------------------------------------------------------------
(* The mock data generation of load_data *)

c2W == <<"2", "W">>
c3W == <<"3", "W">>
c4W == <<"4", "W">>
Hero == <<"H", "e", "r", "o">>
Honda == <<"H", "o", "n", "d", "a">>
Bajaj == <<"B", "a", "j", "a", "j">>
TVS == <<"T", "V", "S">>
RoyalEnfield == <<"R", "o", "y", "a", "l", " ", "E", "n", "f", "i", "e", "l", "d">>
Mahindra == <<"M", "a", "h", "i", "n", "d", "r", "a">>
Piaggio == <<"P", "i", "a", "g", "g", "i", "o">>
Maruti == <<"M", "a", "r", "u", "t", "i">>
Hyundai == <<"H", "y", "u", "n", "d", "a", "i">>
Tata == <<"T", "a", "t", "a">>
Kia == <<"K", "i", "a">>
Toyota == <<"T", "o", "y", "o", "t", "a">>

\* load_data: categories
gen_categories == <<c2W, c3W, c4W>>

\* load_data: manufacturers, a dict; .get(category, []) is ManufacturersGet
gen_manufacturers ==
    << <<c2W, <<Hero, Honda, Bajaj, TVS, RoyalEnfield>> >>,
       <<c3W, <<Bajaj, Mahindra, Piaggio, TVS>> >>,
       <<c4W, <<Maruti, Hyundai, Tata, Mahindra, Kia, Toyota>> >> >>

Prefix(s, n) == SubSeq(s, 1, IF Len(s) < n THEN Len(s) ELSE n)

\* manufacturers.get(category, []), cut to the first MaxManu names
ManufacturersGet(category) ==
    IF \E i \in 1..Len(gen_manufacturers) : gen_manufacturers[i][1] = category
    THEN Prefix((CHOOSE e \in {gen_manufacturers[i] : i \in 1..Len(gen_manufacturers)} :
                    e[1] = category)[2], MaxManu)
    ELSE <<>>

\* the window of pd.date_range(start='2019-01-01', end='2023-12-31'): the model
\* generates the GenMonths months of it that start with December 2022
CodeStart == [y |-> 2019, m |-> 1, d |-> 1]
CodeEnd == [y |-> 2023, m |-> 12, d |-> 31]
WindowStart == [y |-> 2022, m |-> 12, d |-> 1]
WindowEnd ==
    LET i == WindowStart.y * 12 + (WindowStart.m - 1) + (GenMonths - 1)
        e == MonthEnd(i \div 12, (i % 12) + 1)
    IN  IF DateLE(e, CodeEnd) THEN e ELSE CodeEnd

gen_dates == pd_date_range(WindowStart, WindowEnd)

\* one outcome of np.random.randint(1000, 5000) and np.random.normal(0, 0.1);
\* noise is in thousandths
RandDraws == { [base |-> 1000, noise |-> -700], [base |-> 4999, noise |-> 0] }

\* the streams of draws the random source may deliver; a stream is used cyclically
RECURSIVE SeqsOfLen(_, _)
SeqsOfLen(S, n) ==
    IF n = 0 THEN {<<>>}
    ELSE {Append(s, x) : s \in SeqsOfLen(S, n - 1), x \in S}

SeqsUpTo(S, n) == UNION {SeqsOfLen(S, k) : k \in 1..n}

DrawStreams == SeqsUpTo(RandDraws, MaxStream)

DrawAt(stream, i) == stream[((i - 1) % Len(stream)) + 1]

\* np.sin((month - 1) * np.pi / 6) * 0.2 in thousandths
SeasonalityMilli == <<0, 100, 173, 200, 173, 100, 0, -100, -173, -200, -173, -100>>

\* int(x / 1000): truncation toward zero
TruncMilli(x) == IF x >= 0 THEN x \div 1000 ELSE -((-x) \div 1000)

\* registrations = int(base * (1 + growth + seasonality + noise))
RawRegistrations(date, draw) ==
    LET growth == (date.y - CodeStart.y) * 150
        seasonality == SeasonalityMilli[date.m]
    IN  TruncMilli(draw.base * (1000 + growth + seasonality + draw.noise))

Max2(a, b) == IF a >= b THEN a ELSE b

Quarter(month) == <<"Q">> \o IntToStr(((month - 1) \div 3) + 1)

\* the dict without max(1000, registrations)
GenRecord_noClamp(date, category, manufacturer, draw) ==
    [date |-> date,
     year |-> date.y,
     quarter |-> Quarter(date.m),
     month |-> date.m,
     category |-> category,
     manufacturer |-> manufacturer,
     registrations |-> RawRegistrations(date, draw)]

\* the dict appended to data
GenRecord(date, category, manufacturer, draw) ==
    [date |-> date,
     year |-> date.y,
     quarter |-> Quarter(date.m),
     month |-> date.m,
     category |-> category,
     manufacturer |-> manufacturer,
     registrations |-> Max2(1000, RawRegistrations(date, draw))]

RECURSIVE Flatten(_)
Flatten(ss) == IF Len(ss) = 0 THEN <<>> ELSE Head(ss) \o Flatten(Tail(ss))

\* the three nested loops, in their order: the (date, category, manufacturer) keys
GenKeys ==
    Flatten([i \in 1..Len(gen_dates) |->
        Flatten([j \in 1..Len(gen_categories) |->
            [k \in 1..Len(ManufacturersGet(gen_categories[j])) |->
                <<gen_dates[i], gen_categories[j],
                  ManufacturersGet(gen_categories[j])[k]>>]])])

\* pd.DataFrame(data) for one stream of draws
Generate(stream) ==
    [i \in 1..Len(GenKeys) |->
        GenRecord(GenKeys[i][1], GenKeys[i][2], GenKeys[i][3], DrawAt(stream, i))]

-----------------------------------------------------------------------------
(* The CSV file: df.to_csv, pd.read_csv, pd.to_datetime *)

\* the columns of the DataFrame, in the order of the dict's keys
Columns == << <<"d","a","t","e">>, <<"y","e","a","r">>,
              <<"q","u","a","r","t","e","r">>, <<"m","o","n","t","h">>,
              <<"c","a","t","e","g","o","r","y">>,
              <<"m","a","n","u","f","a","c","t","u","r","e","r">>,
              <<"r","e","g","i","s","t","r","a","t","i","o","n","s">> >>

\* a date written day first: DD-MM-YYYY
DateToStr_dayFirst(t) == Pad(t.d, 2) \o <<"-">> \o Pad(t.m, 2) \o <<"-">> \o Pad(t.y, 4)

\* a midnight Timestamp as to_csv writes it: YYYY-MM-DD
DateToStr(t) == Pad(t.y, 4) \o <<"-">> \o Pad(t.m, 2) \o <<"-">> \o Pad(t.d, 2)

\* one line of the file, index=False
CsvRow(r) ==
    <<DateToStr(r.date), IntToStr(r.year), r.quarter, IntToStr(r.month),
      r.category, r.manufacturer, IntToStr(r.registrations)>>

\* df.to_csv('vehicle_registrations.csv', index=False): the header, then the rows
to_csv(d) ==
    [exists |-> TRUE, rows |-> <<Columns>> \o [i \in 1..Len(d) |-> CsvRow(d[i])]]

\* pd.to_datetime of one cell: [ok, val]
ParseDate(s) ==
    LET shaped == /\ Len(s) = 10
                  /\ s[5] = "-" /\ s[8] = "-"
                  /\ \A i \in {1, 2, 3, 4, 6, 7, 9, 10} : IsDigit(s[i])
        y == StrToInt(SubSeq(s, 1, 4))
        m == StrToInt(SubSeq(s, 6, 7))
        d == StrToInt(SubSeq(s, 9, 10))
    IN  IF shaped /\ m \in 1..12 /\ d \in 1..DaysIn(y, m)
        THEN [ok |-> TRUE, val |-> [y |-> y, m |-> m, d |-> d]]
        ELSE [ok |-> FALSE, val |-> [y |-> 0, m |-> 0, d |-> 0]]

\* read_csv's type inference: a column is an integer column when every cell is one
ColIsInt(body, j) == \A i \in 1..Len(body) : IsIntStr(body[i][j])

\* pd.read_csv: raises on a missing file, on an empty file, and on a line that has
\* more fields than the header when the first line of data has as many as the
\* header; a file it reads has the columns of Columns
ReadFails(f) ==
    \/ ~f.exists
    \/ Len(f.rows) = 0
    \/ /\ Len(f.rows) >= 2
       /\ Len(f.rows[2]) = Len(f.rows[1])
       /\ \E i \in 3..Len(f.rows) : Len(f.rows[i]) > Len(f.rows[1])

\* the try block of load_data: [ok, val]
LoadFromFile(f) ==
    IF ReadFails(f) THEN [ok |-> FALSE, val |-> <<>>]
    ELSE LET body == Tail(f.rows)
             Col(name) == CHOOSE j \in 1..Len(f.rows[1]) : f.rows[1][j] = name
             Cell(i, name) ==
                 IF ColIsInt(body, Col(name)) THEN StrToInt(body[i][Col(name)])
                 ELSE body[i][Col(name)]
             dateOk == \A i \in 1..Len(body) : ParseDate(body[i][Col(Columns[1])]).ok
         IN  IF ~dateOk THEN [ok |-> FALSE, val |-> <<>>]
             ELSE [ok |-> TRUE,
                   val |-> [i \in 1..Len(body) |->
                       [date |-> ParseDate(body[i][Col(Columns[1])]).val,
                        year |-> Cell(i, Columns[2]),
                        quarter |-> Cell(i, Columns[3]),
                        month |-> Cell(i, Columns[4]),
                        category |-> Cell(i, Columns[5]),
                        manufacturer |-> Cell(i, Columns[6]),
                        registrations |-> Cell(i, Columns[7])]]]

-----------------------------------------------------------------------------
(* Files the process may find when it starts *)

\* a well-formed record of a data file
FileRecord(date, category, manufacturer, registrations) ==
    [date |-> date, year |-> date.y, quarter |-> Quarter(date.m), month |-> date.m,
     category |-> category, manufacturer |-> manufacturer,
     registrations |-> registrations]

Jan2022 == MonthEnd(2022, 1)
Jan2023 == MonthEnd(2023, 1)
Dec2021 == MonthEnd(2021, 12)

SampleDatasets ==
    { << FileRecord(Jan2022, c2W, Hero, 1000), FileRecord(Jan2023, c2W, Hero, 1100) >>,
      << FileRecord(Jan2023, c2W, Hero, 1200), FileRecord(Jan2023, c3W, Bajaj, 0) >>,
      << FileRecord(Dec2021, c3W, Bajaj, 1000), FileRecord(Jan2022, c2W, Bajaj, 0) >> }

MissingFile == [exists |-> FALSE, rows |-> <<>>]
EmptyFile == [exists |-> TRUE, rows |-> <<>>]
\* a second line of data with one field too many
RaggedFile ==
    [exists |-> TRUE,
     rows |-> <<Columns, CsvRow(FileRecord(Jan2023, c2W, Hero, 1000)),
                Append(CsvRow(FileRecord(Jan2023, c2W, Hero, 1000)), <<"x">>)>>]
\* a date cell that is no date
BadDateFile ==
    [exists |-> TRUE,
     rows |-> <<Columns,
                [CsvRow(FileRecord(Jan2023, c2W, Hero, 1000)) EXCEPT ![1] = <<"n", "a">>]>>]

InitialFiles ==
    {MissingFile, EmptyFile, RaggedFile, BadDateFile} \cup {to_csv(d) : d \in SampleDatasets}

-----------------------------------------------------------------------------
(* load_data and its st.cache_data wrapper *)

\* load_data without its df.to_csv line
load_data_nowrite(f, stream, writeOk) ==
    LET r == LoadFromFile(f)
    IN  IF r.ok
        THEN [raised |-> FALSE, gen |-> FALSE, wrote |-> FALSE, df |-> r.val, file |-> f]
        ELSE [raised |-> FALSE, gen |-> TRUE, wrote |-> FALSE,
              df |-> Generate(stream), file |-> f]

\* the body of load_data for one outcome of the random draws and of the write:
\* raised = an exception left the function, gen = the except branch ran,
\* wrote = to_csv completed, file = the file afterwards
load_data(f, stream, writeOk) ==
    LET r == LoadFromFile(f)
    IN  IF r.ok
        THEN [raised |-> FALSE, gen |-> FALSE, wrote |-> FALSE, df |-> r.val, file |-> f]
        ELSE IF writeOk
        THEN [raised |-> FALSE, gen |-> TRUE, wrote |-> TRUE,
              df |-> Generate(stream), file |-> to_csv(Generate(stream))]
        ELSE [raised |-> TRUE, gen |-> TRUE, wrote |-> FALSE, df |-> <<>>, file |-> f]

\* load_data without the st.cache_data decorator
CacheHit_never(c) == FALSE

\* st.cache_data: a stored return value is reused; an exception stores nothing
CacheHit(c) == c.set

CacheStore(c, res) == IF res.raised THEN c ELSE [set |-> TRUE, val |-> res.df]

NoFloat == [k |-> "unset", n |-> 0, d |-> 1]

\* the script's variables before a run has assigned them
RunReset ==
    /\ df = <<>> /\ date_range = <<>> /\ categories = {} /\ manufacturers = {}
    /\ filtered_df = <<>> /\ total_reg = 0 /\ total_text = <<>>
    /\ yoy_growth = NoFloat /\ yoy_text = <<>> /\ latest_month = <<>>
    /\ yoy_df = <<>> /\ manu_share = <<>> /\ monthly = <<>> /\ show_raw = FALSE
    /\ src = "none" /\ errAt = "none"

pipeVars == <<date_range, categories, manufacturers, filtered_df, total_reg,
              total_text, yoy_growth, yoy_text, latest_month, yoy_df, manu_share,
              monthly, show_raw>>

Init ==
    /\ file \in InitialFiles
    /\ cache = [set |-> FALSE, val |-> <<>>]
    /\ generated = [set |-> FALSE, val |-> <<>>]
    /\ attempts = 0 /\ writes = 0 /\ genCalls = 0
    /\ pc = "start"
    /\ RunReset

\* main: df = load_data()
LoadData ==
    /\ pc = "start"
    /\ IF CacheHit(cache)
       THEN /\ df' = cache.val
            /\ src' = "cache"
            /\ pc' = "loaded"
            /\ UNCHANGED <<file, cache, attempts, writes, genCalls, generated, errAt>>
       ELSE /\ attempts < MaxAttempts
            /\ \E stream \in DrawStreams, writeOk \in BOOLEAN :
                 LET res == load_data(file, stream, writeOk)
                 IN  /\ attempts' = attempts + 1
                     /\ genCalls' = IF res.gen THEN genCalls + 1 ELSE genCalls
                     /\ writes' = IF res.wrote THEN writes + 1 ELSE writes
                     /\ file' = res.file
                     /\ cache' = CacheStore(cache, res)
                     /\ generated' = IF res.gen /\ ~res.raised
                                     THEN [set |-> TRUE, val |-> res.df] ELSE generated
                     /\ df' = res.df
                     /\ src' = IF res.raised THEN "none"
                               ELSE IF res.gen THEN "generated" ELSE "file"
                     /\ pc' = IF res.raised THEN "error" ELSE "loaded"
                     /\ errAt' = IF res.raised THEN "load" ELSE errAt
    /\ UNCHANGED pipeVars

-----------------------------------------------------------------------------
(* The sidebar widgets *)

DatesOf(d) == {d[i].date : i \in 1..Len(d)}
MinDate(d) == CHOOSE x \in DatesOf(d) : \A y \in DatesOf(d) : DateLE(x, y)
MaxDate(d) == CHOOSE x \in DatesOf(d) : \A y \in DatesOf(d) : DateLE(y, x)

\* df['category'].unique(), df['manufacturer'].unique()
CategoryOptions(d) == {d[i].category : i \in 1..Len(d)}
ManufacturerOptions(d) == {d[i].manufacturer : i \in 1..Len(d)}

\* what st.date_input may return: the start alone while the user is picking, or
\* a start and an end; the days offered are the days of the data
DateInputs(d) ==
    {<<a>> : a \in DatesOf(d)}
    \cup {p \in DatesOf(d) \X DatesOf(d) : DateLE(p[1], p[2])}

\* what st.multiselect may return: nothing, one option, all but one, everything
Picks(options) ==
    {{}, options} \cup {{o} : o \in options} \cup {options \ {o} : o \in options}

\* main: the three widgets
Widgets ==
    /\ pc = "loaded"
    /\ date_range' \in DateInputs(df)
    /\ categories' \in Picks(CategoryOptions(df))
    /\ manufacturers' \in Picks(ManufacturerOptions(df))
    /\ pc' = "widgets"
    /\ UNCHANGED <<file, cache, attempts, writes, genCalls, generated, src, errAt, df,
                   filtered_df, total_reg, total_text, yoy_growth, yoy_text,
                   latest_month, yoy_df, manu_share, monthly, show_raw>>

-----------------------------------------------------------------------------
(* The filter *)

\* the rows of d whose mask entry is True, in d's order
RECURSIVE Take(_, _)
Take(d, mask) ==
    IF Len(d) = 0 THEN <<>>
    ELSE (IF mask[1] THEN <<Head(d)>> ELSE <<>>) \o Take(Tail(d), Tail(mask))

\* the filter with df['date'] < end in place of <=
Filter_strictEnd(d, dr, cats, manus) ==
    Take(d, [i \in 1..Len(d) |->
                /\ DateLE(dr[1], d[i].date)
                /\ DateLess(d[i].date, dr[2])
                /\ d[i].category \in cats
                /\ d[i].manufacturer \in manus])

\* the filter with an empty selection read as no restriction
Filter_emptyIsAll(d, dr, cats, manus) ==
    Take(d, [i \in 1..Len(d) |->
                /\ DateLE(dr[1], d[i].date)
                /\ DateLE(d[i].date, dr[2])
                /\ (cats = {} \/ d[i].category \in cats)
                /\ (manus = {} \/ d[i].manufacturer \in manus)])

\* main: filtered_df = df[(...) & (...) & (...) & (...)]
Filter(d, dr, cats, manus) ==
    Take(d, [i \in 1..Len(d) |->
                /\ DateLE(dr[1], d[i].date)
                /\ DateLE(d[i].date, dr[2])
                /\ d[i].category \in cats
                /\ d[i].manufacturer \in manus])

\* main: apply filters; date_range[1] raises IndexError on a tuple of one date
ApplyFilters ==
    /\ pc = "widgets"
    /\ IF Len(date_range) < 2
       THEN /\ pc' = "error" /\ errAt' = "filter"
            /\ UNCHANGED filtered_df
       ELSE /\ filtered_df' = Filter(df, date_range, categories, manufacturers)
            /\ pc' = "filtered"
            /\ UNCHANGED errAt
    /\ UNCHANGED <<file, cache, attempts, writes, genCalls, generated, src, df,
                   date_range, categories, manufacturers, total_reg, total_text,
                   yoy_growth, yoy_text, latest_month, yoy_df, manu_share, monthly,
                   show_raw>>

-----------------------------------------------------------------------------
(* Floats and their texts *)

Fin(n, d) == [k |-> "fin", n |-> n, d |-> d]
NaN == [k |-> "nan", n |-> 0, d |-> 1]
Inf == [k |-> "inf", n |-> 0, d |-> 1]

\* a / b for two non-negative int64 sums: numpy warns and gives nan or inf for b = 0
FDiv(a, b) == IF b = 0 THEN (IF a = 0 THEN NaN ELSE Inf) ELSE Fin(a, b)

\* x - 1
FSub1(x) == IF x.k = "fin" THEN Fin(x.n - x.d, x.d) ELSE x

\* x * 100
FMul100(x) == IF x.k = "fin" THEN Fin(100 * x.n, x.d) ELSE x

Abs(n) == IF n < 0 THEN -n ELSE n

\* f"{x:.1f}": the nearest tenth, a tie to the even tenth
Format1f(x) ==
    IF x.k = "nan" THEN <<"n", "a", "n">>
    ELSE IF x.k = "inf" THEN <<"i", "n", "f">>
    ELSE LET a == 10 * Abs(x.n)
             q == a \div x.d
             r == a % x.d
             tenths == IF 2 * r > x.d \/ (2 * r = x.d /\ q % 2 = 1) THEN q + 1 ELSE q
         IN  (IF x.n < 0 THEN <<"-">> ELSE <<>>)
             \o IntToStr(tenths \div 10) \o <<".">> \o IntToStr(tenths % 10)

\* f"{n:,}" for n >= 0
RECURSIVE FormatThousands(_)
FormatThousands(n) ==
    IF n < 1000 THEN IntToStr(n)
    ELSE FormatThousands(n \div 1000) \o <<",">> \o Pad(n % 1000, 3)

-----------------------------------------------------------------------------
(* Sums and groupby *)

RECURSIVE SumRegs(_)
\* d['registrations'].sum()
SumRegs(d) == IF Len(d) = 0 THEN 0 ELSE Head(d).registrations + SumRegs(Tail(d))

\* d[d['year'] == y]
OfYear(d, y) == SelectSeq(d, LAMBDA r : r.year = y)

KeyLess(a, b) ==
    DateLess(a[1], b[1]) \/ (a[1] = b[1] /\ StrLess(a[2], b[2]))

\* the keys of a groupby in ascending order (sort=True): years
SortedYears(S) ==
    [k \in 1..Cardinality(S) |->
        CHOOSE x \in S : Cardinality({y \in S : y < x}) = k - 1]

\* the keys of a groupby in ascending order: manufacturer names
SortedNames(S) ==
    [k \in 1..Cardinality(S) |->
        CHOOSE x \in S : Cardinality({y \in S : StrLess(y, x)}) = k - 1]

\* the keys of a groupby in ascending order: (date, category) pairs
SortedKeys(S) ==
    [k \in 1..Cardinality(S) |->
        CHOOSE x \in S : Cardinality({y \in S : KeyLess(y, x)}) = k - 1]

\* the change against the first total in place of the previous one
PctChange_fromFirst(totals) ==
    [i \in 1..Len(totals) |->
        IF i = 1 THEN NaN ELSE FMul100(FSub1(FDiv(totals[i], totals[1])))]

\* x.pct_change() * 100 of a column of sums
PctChange(totals) ==
    [i \in 1..Len(totals) |->
        IF i = 1 THEN NaN ELSE FMul100(FSub1(FDiv(totals[i], totals[i - 1])))]

\* filtered_df.groupby('year')['registrations'].sum().reset_index(), and growth_pct
YoyTable(d) ==
    LET years == SortedYears({d[i].year : i \in 1..Len(d)})
        totals == [i \in 1..Len(years) |-> SumRegs(OfYear(d, years[i]))]
        growth == PctChange(totals)
    IN  [i \in 1..Len(years) |->
            [year |-> years[i], registrations |-> totals[i], growth_pct |-> growth[i]]]

\* filtered_df.groupby('manufacturer')['registrations'].sum().reset_index()
ManuShare(d) ==
    LET names == SortedNames({d[i].manufacturer : i \in 1..Len(d)})
    IN  [i \in 1..Len(names) |->
            [manufacturer |-> names[i],
             registrations |->
                 SumRegs(SelectSeq(d, LAMBDA r : r.manufacturer = names[i]))]]

\* the (date, category) groups, each summed over its whole date
Monthly_byDate(d) ==
    LET keys == SortedKeys({<<d[i].date, d[i].category>> : i \in 1..Len(d)})
    IN  [i \in 1..Len(keys) |->
            [date |-> keys[i][1], category |-> keys[i][2],
             registrations |-> SumRegs(SelectSeq(d, LAMBDA r : r.date = keys[i][1]))]]

\* filtered_df.groupby(['date', 'category'])['registrations'].sum().reset_index()
Monthly(d) ==
    LET keys == SortedKeys({<<d[i].date, d[i].category>> : i \in 1..Len(d)})
    IN  [i \in 1..Len(keys) |->
            [date |-> keys[i][1], category |-> keys[i][2],
             registrations |->
                 SumRegs(SelectSeq(d, LAMBDA r : r.date = keys[i][1]
                                                 /\ r.category = keys[i][2]))]]

-----------------------------------------------------------------------------
(* Key metrics, charts, raw data *)

\* main: yoy_growth
YoyGrowth(d) == FMul100(FSub1(FDiv(SumRegs(OfYear(d, 2023)), SumRegs(OfYear(d, 2022)))))

\* main: the three metrics; NaT.strftime raises ValueError on an empty filtered_df
Metrics ==
    /\ pc = "filtered"
    /\ total_reg' = SumRegs(filtered_df)
    /\ total_text' = FormatThousands(SumRegs(filtered_df))
    /\ yoy_growth' = YoyGrowth(filtered_df)
    /\ yoy_text' = Format1f(YoyGrowth(filtered_df)) \o <<"%">>
    /\ IF Len(filtered_df) = 0
       THEN /\ pc' = "error" /\ errAt' = "metrics"
            /\ UNCHANGED latest_month
       ELSE /\ latest_month' = strftime_B_Y(MaxDate(filtered_df))
            /\ pc' = "metrics"
            /\ UNCHANGED errAt
    /\ UNCHANGED <<file, cache, attempts, writes, genCalls, generated, src, df,
                   date_range, categories, manufacturers, filtered_df, yoy_df,
                   manu_share, monthly, show_raw>>

\* main: the tables of the three charts
Charts ==
    /\ pc = "metrics"
    /\ yoy_df' = YoyTable(filtered_df)
    /\ manu_share' = ManuShare(filtered_df)
    /\ monthly' = Monthly(filtered_df)
    /\ pc' = "charts"
    /\ UNCHANGED <<file, cache, attempts, writes, genCalls, generated, src, errAt, df,
                   date_range, categories, manufacturers, filtered_df, total_reg,
                   total_text, yoy_growth, yoy_text, latest_month, show_raw>>

\* main: the "Show Raw Data" checkbox, the end of the script
RawData ==
    /\ pc = "charts"
    /\ \E checked \in BOOLEAN : show_raw' = checked
    /\ pc' = "done"
    /\ UNCHANGED <<file, cache, attempts, writes, genCalls, generated, src, errAt, df,
                   date_range, categories, manufacturers, filtered_df, total_reg,
                   total_text, yoy_growth, yoy_text, latest_month, yoy_df, manu_share,
                   monthly>>

\* the variables of a script run, cleared for the next run
ClearRun ==
    /\ df' = <<>> /\ date_range' = <<>> /\ categories' = {} /\ manufacturers' = {}
    /\ filtered_df' = <<>> /\ total_reg' = 0 /\ total_text' = <<>>
    /\ yoy_growth' = NoFloat /\ yoy_text' = <<>> /\ latest_month' = <<>>
    /\ yoy_df' = <<>> /\ manu_share' = <<>> /\ monthly' = <<>> /\ show_raw' = FALSE
    /\ src' = "none" /\ errAt' = "none"

\* Streamlit runs the script again on an interaction, in the same process
Rerun ==
    /\ pc \in {"done", "error"}
    /\ pc' = "start"
    /\ ClearRun
    /\ UNCHANGED <<file, cache, attempts, writes, genCalls, generated>>

\* the server process ends and a new one starts: the file stays, the cache is gone
Restart ==
    /\ pc \in {"done", "error"}
    /\ pc' = "start"
    /\ ClearRun
    /\ cache' = [set |-> FALSE, val |-> <<>>]
    /\ attempts' = 0 /\ writes' = 0 /\ genCalls' = 0
    /\ UNCHANGED <<file, generated>>

Next ==
    \/ LoadData
    \/ Widgets
    \/ ApplyFilters
    \/ Metrics
    \/ Charts
    \/ RawData
    \/ Rerun
    \/ Restart

Spec == Init /\ [][Next]_vars

-----------------------------------------------------------------------------
(* The filter and the aggregations on their own: the process has loaded a   *)
(* data file, and every dataset of a bounded size is tried as that file     *)

FilterRecords ==
    {FileRecord(d, cm[1], cm[2], 1000) :
        d \in {Dec2021, Jan2022, Jan2023},
        cm \in {<<c2W, Hero>>, <<c2W, Bajaj>>, <<c3W, Bajaj>>}}

AggRecords ==
    {FileRecord(k[1], k[2], k[3], r) :
        k \in {<<Dec2021, c2W, Hero>>, <<Jan2022, c2W, Hero>>, <<Jan2023, c2W, Hero>>,
               <<Jan2023, c2W, Bajaj>>, <<Jan2023, c3W, Bajaj>>},
        r \in {1000, 1500}}
    \cup {FileRecord(Jan2022, c2W, Hero, 0), FileRecord(Jan2023, c3W, Bajaj, 0)}

\* the state after the first load_data() of a process that found the file f,
\* which it read as d
LoadedFrom(f, d) ==
    /\ file = f
    /\ cache = [set |-> TRUE, val |-> d]
    /\ df = d
    /\ generated = [set |-> FALSE, val |-> <<>>]
    /\ attempts = 1 /\ writes = 0 /\ genCalls = 0
    /\ src = "file" /\ errAt = "none"
    /\ total_reg = 0 /\ total_text = <<>>
    /\ yoy_growth = NoFloat /\ yoy_text = <<>> /\ latest_month = <<>>
    /\ yoy_df = <<>> /\ manu_share = <<>> /\ monthly = <<>> /\ show_raw = FALSE

InitFilter ==
    \E w \in SeqsUpTo(FilterRecords, MaxFilterRows) :
      \E f \in {to_csv(w)} : \E d \in {LoadFromFile(f).val} :
            /\ LoadedFrom(f, d)
            /\ date_range = <<>> /\ categories = {} /\ manufacturers = {}
            /\ filtered_df = <<>>
            /\ pc = "loaded"

NextFilter == Widgets \/ ApplyFilters

SpecFilter == InitFilter /\ [][NextFilter]_vars

\* the widgets left at their defaults: the whole date range, every option
InitAgg ==
    \E w \in SeqsUpTo(AggRecords, MaxAggRows) :
      \E f \in {to_csv(w)} : \E d \in {LoadFromFile(f).val} :
            /\ LoadedFrom(f, d)
            /\ date_range = <<MinDate(d), MaxDate(d)>>
            /\ categories = CategoryOptions(d)
            /\ manufacturers = ManufacturerOptions(d)
            /\ filtered_df = Filter(d, <<MinDate(d), MaxDate(d)>>,
                                    CategoryOptions(d), ManufacturerOptions(d))
            /\ pc = "filtered"

NextAgg == Metrics \/ Charts \/ RawData

SpecAgg == InitAgg /\ [][NextAgg]_vars

-----------------------------------------------------------------------------
(* Properties *)

\* the files pd.read_csv or pd.to_datetime cannot read
BrokenFiles == {MissingFile, EmptyFile, RaggedFile, BadDateFile}

GeneratedDatasets == {Generate(stream) : stream \in DrawStreams}

\* a step that executes the body of load_data
LoadBodyStep == pc = "start" /\ ~cache.set /\ pc' # "start"

\* C1: when reading the dataset file fails (missing file, unparseable content,
\* malformed date column), load_data runs the generator, and every such call that
\* returns has written the generated dataset to the file and returns that dataset
\* (an exception of the write leaves the function instead, with the file as it
\* was); when reading succeeds, the dataset of the file is returned, the generator
\* does not run and the file is not written.
C1_LoadOrGenerate ==
    [][LoadBodyStep =>
         IF file \in BrokenFiles
         THEN /\ genCalls' = genCalls + 1
              /\ pc' = "loaded" =>
                   /\ src' = "generated"
                   /\ df' \in GeneratedDatasets
                   /\ file' = to_csv(df')
                   /\ writes' = writes + 1
              /\ pc' # "loaded" => (pc' = "error" /\ errAt' = "load" /\ file' = file)
         ELSE /\ pc' = "loaded"
              /\ src' = "file"
              /\ genCalls' = genCalls /\ writes' = writes /\ file' = file
              /\ to_csv(df') = file]_vars

C1_Witness ==
    /\ pc = "loaded" /\ src = "generated" /\ writes = 1 /\ genCalls = 1
    /\ file = to_csv(df)

Kept(d, dr, cats, manus) ==
    {i \in 1..Len(d) :
        /\ DateLE(dr[1], d[i].date) /\ DateLE(d[i].date, dr[2])
        /\ d[i].category \in cats
        /\ d[i].manufacturer \in manus}

\* C3: the filtered dataset holds exactly the records with
\* start <= date <= end, category selected and manufacturer selected, each once
\* and in the order of the input, and the input dataset is left as it was loaded.
C3_FilterExact ==
    pc = "filtered" =>
        LET S == Kept(df, date_range, categories, manufacturers)
        IN  /\ Len(filtered_df) = Cardinality(S)
            /\ \A k \in 1..Len(filtered_df) :
                 \E i \in S : /\ Cardinality({j \in S : j < i}) = k - 1
                              /\ filtered_df[k] = df[i]
            /\ df = cache.val
            /\ to_csv(df) = file

C3_Witness ==
    /\ pc = "filtered"
    /\ Len(df) = 2 /\ Len(filtered_df) = 1
    /\ date_range[1] # date_range[2]
    /\ filtered_df[1] = df[2]
    /\ filtered_df[1].date = date_range[2]

\* C4: an empty selection of categories or of manufacturers gives an empty
\* filtered dataset, whatever the date range and the other selection are.
C4_EmptySelection ==
    (pc = "filtered" /\ (categories = {} \/ manufacturers = {})) => filtered_df = <<>>

C4_Witness ==
    /\ pc = "filtered"
    /\ manufacturers = {}
    /\ categories = CategoryOptions(df)
    /\ date_range = <<MinDate(df), MaxDate(df)>>
    /\ Len(df) = 2

\* C5: for an empty filtered dataset the run goes on to the aggregation tables,
\* with a total of 0, no latest month and empty market-share and monthly-trend
\* tables; it does not end in the metrics step.
C5_EmptyRunCompletes ==
    /\ ~(pc = "error" /\ errAt = "metrics")
    /\ (pc \in {"charts", "done"} /\ filtered_df = <<>>) =>
          (total_reg = 0 /\ latest_month = <<>> /\ manu_share = <<>> /\ monthly = <<>>)

\* the metrics step has shown the year-over-year metric
YoyShown == pc \in {"metrics", "charts", "done"} \/ (pc = "error" /\ errAt = "metrics")

\* C6: when the total of 2022 in the filtered dataset is zero or the filtered
\* dataset has no record of 2023, the year-over-year metric shows no result of
\* the division: its text is not the formatted quotient.
C6_NoDataShown ==
    (/\ YoyShown
     /\ \/ SumRegs(OfYear(filtered_df, 2022)) = 0
        \/ OfYear(filtered_df, 2023) = <<>>)
    => yoy_text # Format1f(yoy_growth) \o <<"%">>

RECURSIVE SumAt(_, _)
\* the registrations of the rows of d at the indices I
SumAt(d, I) ==
    IF I = {} THEN 0
    ELSE LET i == CHOOSE x \in I : TRUE
         IN  d[i].registrations + SumAt(d, I \ {i})

\* C7: yoy_df has one entry per year of the filtered dataset, by year ascending,
\* with the sum of that year's registrations; the first entry has no growth
\* value, and every later entry's growth is (total / previous total - 1) * 100
\* for the total of the entry just before it (infinite or not a number when that
\* total is zero).
C7_YoyTable ==
    pc \in {"charts", "done"} =>
        LET years == {filtered_df[i].year : i \in 1..Len(filtered_df)}
        IN  /\ Len(yoy_df) = Cardinality(years)
            /\ {yoy_df[i].year : i \in 1..Len(yoy_df)} = years
            /\ \A i \in 1..Len(yoy_df) : \A j \in 1..Len(yoy_df) :
                 i < j => yoy_df[i].year < yoy_df[j].year
            /\ \A i \in 1..Len(yoy_df) :
                 yoy_df[i].registrations =
                     SumAt(filtered_df, {k \in 1..Len(filtered_df) :
                                            filtered_df[k].year = yoy_df[i].year})
            /\ Len(yoy_df) > 0 => yoy_df[1].growth_pct.k = "nan"
            /\ \A i \in 2..Len(yoy_df) :
                 LET prev == yoy_df[i - 1].registrations
                     this == yoy_df[i].registrations
                     g == yoy_df[i].growth_pct
                 IN  IF prev # 0
                     THEN g.k = "fin" /\ g.n * prev = (this - prev) * 100 * g.d
                     ELSE g.k = (IF this = 0 THEN "nan" ELSE "inf")

\* totals 1000, 1500 and then 1000: growth absent, 50 and a negative value
C7_Witness ==
    /\ pc = "charts"
    /\ Len(yoy_df) = 3
    /\ yoy_df[1].registrations = 1000 /\ yoy_df[1].growth_pct.k = "nan"
    /\ yoy_df[2].registrations = 1500
    /\ yoy_df[2].growth_pct.k = "fin"
    /\ yoy_df[2].growth_pct.n = 50 * yoy_df[2].growth_pct.d
    /\ yoy_df[3].registrations = 1000
    /\ yoy_df[3].growth_pct.n < 0

\* C8: the totals of manu_share add up to total_reg, and so do the totals of
\* monthly; total_reg is the sum of the registrations of the filtered dataset.
C8_MassPreserved ==
    pc \in {"charts", "done"} =>
        /\ total_reg = SumAt(filtered_df, 1..Len(filtered_df))
        /\ SumAt(manu_share, 1..Len(manu_share)) = total_reg
        /\ SumAt(monthly, 1..Len(monthly)) = total_reg

C8_Witness ==
    /\ pc = "charts"
    /\ Len(filtered_df) = 3 /\ Len(manu_share) = 2 /\ Len(monthly) = 2
    /\ total_reg = 3500
    /\ \E i \in 1..2 : manu_share[i].registrations # monthly[i].registrations

QuarterOfMonth == <<"1", "1", "1", "2", "2", "2", "3", "3", "3", "4", "4", "4">>

\* the month ends of the generator's window
WindowMonthEnds ==
    {MonthEnd(y, m) : y \in WindowStart.y..WindowEnd.y, m \in 1..12}
    \cap {t \in [y : WindowStart.y..WindowEnd.y, m : 1..12, d : 28..31] :
            DateLE(WindowStart, t) /\ DateLE(t, WindowEnd)}

RangeOf(s) == {s[i] : i \in 1..Len(s)}

\* C9: a generated dataset has exactly one record for every (month end of the
\* window, category, manufacturer of that category), and in every record
\* registrations >= 1000, the manufacturer is one of its category's, and
\* quarter is "Q" followed by (month - 1) // 3 + 1.
C9_GeneratedWellFormed ==
    (pc = "loaded" /\ src = "generated") =>
        LET g == df
            keys == {<<t, c, m>> \in
                        WindowMonthEnds \X RangeOf(gen_categories)
                            \X UNION {RangeOf(ManufacturersGet(c)) :
                                         c \in RangeOf(gen_categories)} :
                        m \in RangeOf(ManufacturersGet(c))}
        IN  /\ {<<g[i].date, g[i].category, g[i].manufacturer>> : i \in 1..Len(g)} = keys
            /\ Len(g) = Cardinality(keys)
            /\ \A i \in 1..Len(g) :
                 /\ g[i].registrations >= 1000
                 /\ g[i].manufacturer \in RangeOf(ManufacturersGet(g[i].category))
                 /\ g[i].month = g[i].date.m /\ g[i].year = g[i].date.y
                 /\ g[i].quarter = <<"Q", QuarterOfMonth[g[i].month]>>

C9_Witness ==
    /\ pc = "loaded" /\ src = "generated"
    /\ \E i \in 1..Len(df) : df[i].registrations = 1000
    /\ \E i \in 1..Len(df) : df[i].registrations > 1000
    /\ \E i \in 1..Len(df) : \E j \in 1..Len(df) : df[i].quarter # df[j].quarter

\* C10: the file a generating load wrote reads back, in that process or a later
\* one, as the dataset that load returned: the same records in the same order,
\* equal in every field.
C10_RoundTrip ==
    /\ (pc = "loaded" /\ src = "generated") =>
          (generated.set /\ generated.val = df /\ LoadFromFile(file) = [ok |-> TRUE, val |-> df])
    /\ (pc = "loaded" /\ src = "file" /\ generated.set) => df = generated.val

C10_Witness ==
    /\ generated.set /\ src = "file" /\ pc = "loaded" /\ attempts = 1 /\ writes = 0
    /\ Len(df) = Len(GenKeys)

=============================================================================
